---- MODULE Spec2Model ----
(***************************************************************************)
(* The asynchronous video-generation job lifecycle of neoclip3p            *)
(* (create -> poll -> finalize), as implemented by                         *)
(*   - the client service  src/src/services/asyncVideoService.ts           *)
(*     (job store: localStorage) and the Vercel handlers that call it,     *)
(*   - the Vercel handler  src/api/video.ts  (job store: jobStore Map),    *)
(*   - the Express server  (job store: global.jobStore, userRateLimits).   *)
(* Every handler is split at its await points; one action per segment.     *)
(***************************************************************************)
EXTENDS Naturals, Integers, Sequences, FiniteSets, TLC

VARIABLES
    now,             \* Date.now(), milliseconds
    env,             \* process.env: the configured provider keys
    remote,          \* the providers' side: external reference -> remote status
    localStorage,    \* the service's job store: job id -> stored record
    calls,           \* the calls in flight: slot -> frame suspended at an await
    out,             \* the value returned by the call that returned last
    issued,          \* the job ids handed out by create so far
    lastPoll,        \* per job id, the snapshot the last status poll returned
    claimed,         \* per job id, the number of finalize calls that returned the result
    jobStore,        \* api/video.ts: the handler's job store
    globalJobStore,  \* the Express server: global.jobStore
    userRateLimits,  \* the Express server: user id -> requests and activeJobs
    lastSweep,       \* the Express server: when the cleanup interval last fired
    passed,          \* per user id, the instants of the requests rateLimitMiddleware let through
    user,            \* App.tsx: the UserState (tier, freeUsed, paidUsed, resetsAt)
    generating       \* App.tsx: the selectedTier of the handleGenerate in flight, or ""

svcVars == <<localStorage>>
apiVars == <<jobStore>>
expVars == <<globalJobStore, userRateLimits, lastSweep, passed>>
appVars == <<user, generating>>
vars == <<now, env, remote, localStorage, calls, out, issued, lastPoll, claimed,
          jobStore, globalJobStore, userRateLimits, lastSweep, passed, user, generating>>

----------------------------------------------------------------------------
(* Bounds of the model *)

SvcMaxJobs == 1
ApiMaxJobs == 1
ExpMaxJobs == 1
ExpMaxRequests == 2
MaxCalls == 2
MaxTime == 240000
PollHorizon == 35000

(* The instants the clock is observed at, and the request inputs drawn. *)
TimePoints == {5000, 30000}
Prompts == {"sunset"}
Ratios == {"9:16", "1:1"}
Durations == {20}
Rand == {0, 1}

Tiers == {"free", "basic", "pro"}
Slots == 1..MaxCalls

----------------------------------------------------------------------------
(* Values *)

(* App.tsx computes resetsAt as the first day of the next month; the model's    *)
(* months are AppMonth milliseconds long.                                       *)
AppMonth == 864000000
NextMonthStart(t) == ((t \div AppMonth) + 1) * AppMonth

DEFAULT_USER == [tier |-> "free", freeUsed |-> 0, paidUsed |-> 0, resetsAt |-> NextMonthStart(0)]

NoId == <<"", 0, 0>>
GhostId == <<"ghost", 0, 0>>
NoRef == <<"", 0, 0>>
NoUrl == [kind |-> "", prompt |-> "", w |-> 0, h |-> 0, duration |-> 0, tag |-> NoId]

Url(kind, prompt, w, h, duration, tag) ==
    [kind |-> kind, prompt |-> prompt, w |-> w, h |-> h, duration |-> duration, tag |-> tag]

Min(a, b) == IF a < b THEN a ELSE b

NoJob ==
    [id |-> NoId, prompt |-> "", aspectRatio |-> "", duration |-> 0, provider |-> "",
     status |-> "", createdAt |-> 0, isImageSequence |-> FALSE, falJobId |-> NoRef]

(* A call suspended at an await: attempt, maxAttempts and seen are the loop      *)
(* counter, the cap and the last status read of pollForJobCompletion.           *)
Idle == [op |-> "idle", pc |-> "", id |-> NoId, job |-> NoJob, tier |-> "", via |-> "",
         attempt |-> 0, maxAttempts |-> 0, seen |-> ""]

Frame(op, pc, id, job, tier, via) ==
    [op |-> op, pc |-> pc, id |-> id, job |-> job, tier |-> tier, via |-> via,
     attempt |-> 0, maxAttempts |-> 0, seen |-> ""]

NoOut ==
    [op |-> "none", id |-> NoId, found |-> FALSE, http |-> 0, success |-> FALSE,
     status |-> "", videoUrl |-> NoUrl, thumbnail |-> NoUrl, error |-> "",
     isImageSequence |-> FALSE, progress |-> 0, estimatedRemaining |-> 0,
     createdAt |-> 0, updatedAt |-> 0, attempts |-> 0, maxAttempts |-> 0,
     fallback |-> FALSE]

Out(op, id, found, http, success, status, videoUrl, thumbnail, error, isImageSequence) ==
    [op |-> op, id |-> id, found |-> found, http |-> http, success |-> success,
     status |-> status, videoUrl |-> videoUrl, thumbnail |-> thumbnail, error |-> error,
     isImageSequence |-> isImageSequence, progress |-> 0, estimatedRemaining |-> 0,
     createdAt |-> 0, updatedAt |-> 0, attempts |-> 0, maxAttempts |-> 0,
     fallback |-> FALSE]

Put(store, id, job) ==
    [x \in (DOMAIN store) \cup {id} |-> IF x = id THEN job ELSE store[x]]

Remove(store, id) == [x \in (DOMAIN store) \ {id} |-> store[x]]

Empty == [x \in {} |-> NoJob]

NoApiJob ==
    [id |-> NoId, prompt |-> "", aspectRatio |-> "", duration |-> 0, tier |-> "",
     provider |-> "", status |-> "", createdAt |-> 0, externalJobId |-> NoRef, error |-> ""]

NoExpJob ==
    [id |-> NoId, userId |-> "", prompt |-> "", aspectRatio |-> "", duration |-> 0,
     tier |-> "", provider |-> "", status |-> "", createdAt |-> 0, isImageSequence |-> FALSE]

NoLimit == [requests |-> <<>>, activeJobs |-> 0]

----------------------------------------------------------------------------
(* Configuration and the providers *)

KeyValues == {"", "sk_live"}
Providers == {"fal", "piapi", "image"}

(* asyncVideoService.ts getApiKey: an unset variable yields the demo key. *)
SvcGetApiKey(provider) ==
    IF provider \in {"fal", "piapi"} /\ env[provider] # ""
    THEN env[provider]
    ELSE IF provider \in {"fal", "piapi", "google"} THEN "demo_key" ELSE ""

StartsWithDemo(key) == key = "demo_key"

SvcUsableKey(provider) ==
    /\ SvcGetApiKey(provider) # ""
    /\ ~StartsWithDemo(SvcGetApiKey(provider))

RemoteStatuses == {"IN_QUEUE", "processing", "completed", "failed"}
RemoteNext(st) ==
    CASE st = "IN_QUEUE" -> {"processing"}
      [] st = "processing" -> {"completed", "failed"}
      [] OTHER -> {}

NewRef(prefix) == <<prefix, Cardinality(DOMAIN remote), 0>>
NoRemote == [x \in {} |-> ""]

(* What a submission to the provider answers. *)
SubmitResponses == {"throw", "not_ok", "ok_id", "ok_noid"}
(* What a status request to the provider answers for a reference. *)
CheckResponses(ref) ==
    IF ref \in DOMAIN remote THEN {"throw", "not_ok", "ok"} ELSE {"throw", "not_ok"}

----------------------------------------------------------------------------
(* asyncVideoService.ts *)

SvcProcessingTimeImage == 5000
SvcProcessingTimeFal == 30000
HeadMaxAttempts == 40
HeadWait == 5000
HeadOutcomes == {0, HeadMaxAttempts}

Snap(status, videoUrl, thumbnail, error, isImageSequence) ==
    [status |-> status, videoUrl |-> videoUrl, thumbnail |-> thumbnail,
     error |-> error, isImageSequence |-> isImageSequence]

NoSnap == Snap("", NoUrl, NoUrl, "", FALSE)

SvcImageJob(jobId, config, t) ==
    [id |-> jobId, prompt |-> config.prompt, aspectRatio |-> config.aspectRatio,
     duration |-> Min(config.duration, 16), provider |-> "image", status |-> "queued",
     createdAt |-> t, isImageSequence |-> TRUE, falJobId |-> NoRef]

SvcFalDuration(config, tier) == Min(config.duration, IF tier = "pro" THEN 30 ELSE 15)

SvcFalJob(jobId, ref, config, tier, t) ==
    [id |-> jobId, prompt |-> config.prompt, aspectRatio |-> config.aspectRatio,
     duration |-> SvcFalDuration(config, tier), provider |-> "fal", status |-> "queued",
     createdAt |-> t, isImageSequence |-> FALSE, falJobId |-> ref]

(* createVideoJob takes the image-sequence route (lines 53 and 82). *)
SvcRoutesToImage(tier) == tier = "free" \/ ~SvcUsableKey("fal")

SvcWidth(job) == IF job.aspectRatio = "9:16" THEN 576 ELSE 1024
SvcHeight(job) == IF job.aspectRatio = "9:16" THEN 1024 ELSE 576
SvcVideoDuration(job) == Min(IF job.duration = 0 THEN 10 ELSE job.duration, 16)

SvcVideoUrl(job) ==
    Url("pollinations_mp4", job.prompt, SvcWidth(job), SvcHeight(job), SvcVideoDuration(job), NoId)
SvcImageUrl(job) ==
    Url("pollinations_image", job.prompt, SvcWidth(job), SvcHeight(job), 0, NoId)

SvcHeadSnapSlip(job, k) ==
    IF k < HeadMaxAttempts
    THEN Snap("completed", SvcVideoUrl(job), SvcVideoUrl(job), "", TRUE)
    ELSE Snap("failed", NoUrl, NoUrl, "Video generation timed out", TRUE)

(* The outcome of the availability loop: k failed HEAD requests, then a success, *)
(* or HeadMaxAttempts failures and the image fallback. *)
SvcHeadSnap(job, k) ==
    IF k < HeadMaxAttempts
    THEN Snap("completed", SvcVideoUrl(job), SvcVideoUrl(job), "", TRUE)
    ELSE Snap("completed", SvcImageUrl(job), SvcImageUrl(job),
              "Video generation timed out, using image instead", TRUE)

(* Lines 268-281: the simulated status of a fal job. *)
SvcSimulatedSnap(job, jobId, t) ==
    IF t - job.createdAt < SvcProcessingTimeFal
    THEN Snap("processing", NoUrl, NoUrl, "", FALSE)
    ELSE Snap("completed", Url("sample_video", "", 1280, 720, 0, NoId),
              Url("picsum", "", 320, 180, 0, jobId), "", FALSE)

(* Lines 245-265: the answer of the fal status request turned into a snapshot. *)
SvcFalSnap(job, jobId, r, t) ==
    IF r = "ok"
    THEN LET data == remote[job.falJobId] IN
         IF data = "completed"
         THEN Snap("completed", Url("provider", "", 0, 0, 0, job.falJobId),
                   Url("provider", "", 0, 0, 0, job.falJobId), "", FALSE)
         ELSE IF data = "failed"
         THEN Snap("failed", NoUrl, NoUrl, "Video generation failed", FALSE)
         ELSE Snap(data, NoUrl, NoUrl, "", FALSE)
    ELSE SvcSimulatedSnap(job, jobId, t)

SvcNotFoundSnap == Snap("failed", NoUrl, NoUrl, "Job not found", FALSE)

Configs == [prompt : Prompts, aspectRatio : Ratios, duration : Durations]
Bodies == [prompt : Prompts, aspectRatio : Ratios, duration : Durations,
           provider : Providers, tier : Tiers]

(* A new call takes the first free slot: which slot runs a call is immaterial. *)
FreeSlot(s) == calls[s] = Idle /\ \A q \in Slots : q < s => calls[q] # Idle

InFlight(op) == Cardinality({s \in Slots : calls[s].op = op})
MayCreate ==
    Cardinality(issued) + InFlight("create") + InFlight("http_create") + InFlight("generate")
        < SvcMaxJobs

(* What createVideoJob resolves to. *)
CreateResult(jobId, status, error, isImageSequence) ==
    [jobId |-> jobId, status |-> status, error |-> error, isImageSequence |-> isImageSequence]

(* The value the caller of create receives: the service's result itself, or the *)
(* response of the create handler (part_003 lines 79-86, 100-107, 120-127).      *)
CreateOut(op, via, result) ==
    IF op = "create"
    THEN Out("create", result.jobId, TRUE, 0, result.error = "", result.status,
             NoUrl, NoUrl, result.error, result.isImageSequence)
    ELSE Out("http_create", result.jobId, TRUE, 200, TRUE, "queued",
             NoUrl, NoUrl, "", via = "fallback")

(* createVideoJob up to its first await: the image-sequence job is stored and   *)
(* returned at once (lines 53-104); otherwise the call waits for fal (line 110). *)
SvcCreateSync(s, op, via, config, tier) ==
    \E r \in Rand :
        IF SvcRoutesToImage(tier)
        THEN LET jobId == <<"img", now, r>> IN
             /\ localStorage' = Put(localStorage, jobId, SvcImageJob(jobId, config, now))
             /\ issued' = issued \cup {jobId}
             /\ out' = CreateOut(op, via, CreateResult(jobId, "queued", "", TRUE))
             /\ UNCHANGED calls
        ELSE LET jobId == <<"job", now, r>> IN
             /\ calls' = [calls EXCEPT ![s] =
                    Frame(op, "submit", jobId, SvcFalJob(jobId, NoRef, config, tier, 0), tier, via)]
             /\ UNCHANGED <<localStorage, issued, out>>

(* createVideoJob(config, tier) called directly. *)
SvcCreateVideoJob(s, config, tier) ==
    /\ FreeSlot(s)
    /\ MayCreate
    /\ SvcCreateSync(s, "create", "", config, tier)
    /\ UNCHANGED <<now, env, remote, lastPoll, claimed, apiVars, expVars, appVars>>

(* The create handler (part_003): it passes the service one argument, so the    *)
(* service's tier parameter is undefined.                                       *)
HttpCreate(s, body) ==
    /\ FreeSlot(s)
    /\ MayCreate
    /\ IF body.prompt = "" \/ body.aspectRatio = "" \/ body.provider = "" \/ body.tier = ""
       THEN /\ out' = Out("http_create", NoId, TRUE, 400, FALSE, "", NoUrl, NoUrl,
                          "Missing required fields", FALSE)
            /\ UNCHANGED <<localStorage, issued, calls>>
       ELSE IF body.tier = "free"
       THEN \E r \in Rand :
            LET jobId == <<"img", now, r>>
                config == [prompt |-> body.prompt, aspectRatio |-> body.aspectRatio,
                           duration |-> Min(body.duration, 10)]
            IN /\ localStorage' = Put(localStorage, jobId,
                       [SvcImageJob(jobId, config, now) EXCEPT !.duration = config.duration])
               /\ issued' = issued \cup {jobId}
               /\ out' = Out("http_create", jobId, TRUE, 200, TRUE, "queued",
                             NoUrl, NoUrl, "", TRUE)
               /\ UNCHANGED calls
       ELSE IF body.provider \in {"fal", "piapi"}
       THEN SvcCreateSync(s, "http_create", "paid",
                [prompt |-> body.prompt, aspectRatio |-> body.aspectRatio,
                 duration |-> Min(body.duration, IF body.tier = "pro" THEN 30 ELSE 15)],
                "undefined")
       ELSE SvcCreateSync(s, "http_create", "fallback",
                [prompt |-> body.prompt, aspectRatio |-> body.aspectRatio,
                 duration |-> Min(body.duration, 10)],
                "undefined")
    /\ UNCHANGED <<now, env, remote, lastPoll, claimed, apiVars, expVars, appVars>>

GenMaxAttempts == 60

(* The fal submission answers (lines 124-157). When generateVideoAsync made the *)
(* call it goes on at once (lines 385-418): a failed create is answered with    *)
(* success, a created job is waited for with pollForJobCompletion(jobId, 60),   *)
(* whose first status check is the fal status request (line 238).               *)
SvcSubmitReturn(s, r) ==
    /\ calls[s].pc = "submit"
    /\ LET f == calls[s]
           ref == IF r = "ok_id" THEN NewRef("fal") ELSE f.id
           job == [f.job EXCEPT !.falJobId = ref, !.createdAt = now]
       IN IF r \in {"ok_id", "ok_noid"}
          THEN /\ localStorage' = Put(localStorage, f.id, job)
               /\ issued' = issued \cup {f.id}
               /\ remote' = IF r = "ok_id" THEN Put(remote, ref, "IN_QUEUE") ELSE remote
               /\ IF f.op = "generate"
                  THEN /\ calls' = [calls EXCEPT ![s] =
                              [f EXCEPT !.op = "wait", !.pc = "check", !.job = job,
                                        !.maxAttempts = GenMaxAttempts]]
                       /\ UNCHANGED out
                  ELSE /\ out' = CreateOut(f.op, f.via, CreateResult(f.id, "queued", "", FALSE))
                       /\ calls' = [calls EXCEPT ![s] = Idle]
          ELSE /\ out' = IF f.op = "generate"
                         THEN Out("generate", NoId, FALSE, 0, TRUE, "", NoUrl, NoUrl, "", TRUE)
                         ELSE CreateOut(f.op, f.via,
                                  CreateResult(NoId, "failed",
                                      IF r = "not_ok" THEN "FAL API error" ELSE "Failed to fetch",
                                      FALSE))
               /\ calls' = [calls EXCEPT ![s] = Idle]
               /\ UNCHANGED <<localStorage, issued, remote>>
    /\ UNCHANGED <<now, env, lastPoll, claimed, apiVars, expVars, appVars>>

PollOps == {"poll", "http_status", "complete"}

NotCompletedError(status) ==
    CASE status = "failed" -> "Job not completed. Status: failed"
      [] status = "processing" -> "Job not completed. Status: processing"
      [] status = "queued" -> "Job not completed. Status: queued"
      [] OTHER -> "Job not completed. Status: other"

SvcNotCompletedSlip(snap) == snap.status = "failed"

(* completeVideoGeneration line 303: statusResult.status !== 'completed' *)
SvcNotCompleted(snap) == snap.status # "completed"

PollWait == 5000
PollTimeoutError == "Video generation timed out after 5 minutes"

(* What pollForJobCompletion returns (lines 346-357, 364-367), as the value of *)
(* the call f: a loop called directly, or the loop generateVideoAsync ends in. *)
LoopOut(f, found, success, status, videoUrl, thumbnail, error, attempts) ==
    [Out(IF f.via = "generate" THEN "generate" ELSE "wait", f.id, found, 0, success, status,
         videoUrl, thumbnail, error, FALSE)
     EXCEPT !.attempts = attempts, !.maxAttempts = f.maxAttempts]

(* getVideoJobStatus has resolved to snap; what its caller f does with it:      *)
(*   poll         the snapshot is the caller's value,                           *)
(*   http_status  api/video/status.ts lines 28-48,                              *)
(*   complete     completeVideoGeneration lines 303-320,                        *)
(*   wait         pollForJobCompletion lines 342-361.                           *)
(* found records whether the record was read at line 174.                       *)
SvcResolve(s, f, snap, found) ==
    IF f.op = "complete"
    THEN /\ calls' = [calls EXCEPT ![s] = Idle]
         /\ UNCHANGED lastPoll
         /\ IF SvcNotCompleted(snap)
            THEN /\ out' = Out("complete", f.id, found, 0, FALSE, snap.status, NoUrl, NoUrl,
                               NotCompletedError(snap.status), FALSE)
                 /\ UNCHANGED <<localStorage, claimed>>
            ELSE /\ localStorage' = Remove(localStorage, f.id)
                 /\ claimed' = Put(claimed, f.id,
                                   IF f.id \in DOMAIN claimed THEN claimed[f.id] + 1 ELSE 1)
                 /\ out' = Out("complete", f.id, found, 0, TRUE, snap.status, snap.videoUrl,
                               snap.thumbnail, "", FALSE)
    ELSE /\ lastPoll' = IF found THEN Put(lastPoll, f.id, snap) ELSE lastPoll
         /\ UNCHANGED <<localStorage, claimed>>
         /\ IF f.op = "wait"
            THEN IF snap.status = "completed"
                 THEN /\ out' = LoopOut(f, found, TRUE, snap.status, snap.videoUrl,
                                        snap.thumbnail, "", f.attempt + 1)
                      /\ calls' = [calls EXCEPT ![s] = Idle]
                 ELSE IF snap.status = "failed"
                 THEN /\ out' = LoopOut(f, found, FALSE, snap.status, NoUrl, NoUrl,
                                        IF snap.error # "" THEN snap.error
                                        ELSE "Video generation failed", f.attempt + 1)
                      /\ calls' = [calls EXCEPT ![s] = Idle]
                 ELSE /\ calls' = [calls EXCEPT ![s] =
                             [f EXCEPT !.pc = "sleep", !.job = NoJob,
                                       !.attempt = f.attempt + 1, !.seen = snap.status]]
                      /\ UNCHANGED out
            ELSE /\ calls' = [calls EXCEPT ![s] = Idle]
                 /\ out' = IF f.op = "poll"
                           THEN Out("poll", f.id, found, 0, FALSE, snap.status, snap.videoUrl,
                                    snap.thumbnail, snap.error, snap.isImageSequence)
                           ELSE Out("http_status", f.id, found, 200, TRUE, snap.status,
                                    snap.videoUrl, NoUrl, snap.error, FALSE)

(* getVideoJobStatus(f.id) up to its first await (lines 173-243, 268-284), *)
(* called by f at the instant t.                                           *)
SvcStatus(s, f, t) ==
    IF f.id \notin DOMAIN localStorage
    THEN SvcResolve(s, f, SvcNotFoundSnap, FALSE)
    ELSE LET job == localStorage[f.id] IN
         IF job.isImageSequence \/ job.provider = "image"
         THEN IF t - job.createdAt < SvcProcessingTimeImage
              THEN SvcResolve(s, f, Snap("processing", NoUrl, NoUrl, "", FALSE), TRUE)
              ELSE /\ calls' = [calls EXCEPT ![s] = [f EXCEPT !.pc = "head", !.job = job]]
                   /\ UNCHANGED <<out, localStorage, lastPoll, claimed>>
         ELSE IF job.provider = "fal"
         THEN IF SvcUsableKey("fal")
              THEN /\ calls' = [calls EXCEPT ![s] = [f EXCEPT !.pc = "check", !.job = job]]
                   /\ UNCHANGED <<out, localStorage, lastPoll, claimed>>
              ELSE SvcResolve(s, f, SvcSimulatedSnap(job, f.id, t), TRUE)
         ELSE SvcResolve(s, f, Snap("failed", NoUrl, NoUrl, "Unknown provider", FALSE), TRUE)

(* getVideoJobStatus(id) called by a poller, by the status endpoint or by *)
(* completeVideoGeneration.                                               *)
SvcGetVideoJobStatus(s, op, id) ==
    /\ FreeSlot(s)
    /\ SvcStatus(s, Frame(op, "", id, NoJob, "", ""), now)
    /\ UNCHANGED <<now, env, remote, issued, apiVars, expVars, appVars>>

(* The availability loop of an image-sequence job ends (lines 199-227): after k *)
(* failed HEAD requests, each followed by a wait of HeadWait.                    *)
SvcHeadReturn(s, k) ==
    /\ calls[s].pc = "head"
    /\ now + k * HeadWait <= MaxTime
    /\ now' = now + k * HeadWait
    /\ SvcResolve(s, calls[s], SvcHeadSnap(calls[s].job, k), TRUE)
    /\ UNCHANGED <<env, remote, issued, apiVars, expVars, appVars>>

(* The fal status request answers (lines 245-281). *)
SvcCheckReturn(s, r) ==
    /\ calls[s].pc = "check"
    /\ r \in CheckResponses(calls[s].job.falJobId)
    /\ SvcResolve(s, calls[s], SvcFalSnap(calls[s].job, calls[s].id, r, now), TRUE)
    /\ UNCHANGED <<now, env, remote, issued, apiVars, expVars, appVars>>

PollExhaustedSlip(f) == f.attempt > f.maxAttempts

(* The loop condition of pollForJobCompletion (line 339) is false. *)
PollExhausted(f) == f.attempt >= f.maxAttempts

(* One turn of the loop of pollForJobCompletion (lines 339-340, 364-367), at *)
(* the instant t.                                                           *)
SvcLoop(s, f, t) ==
    IF PollExhausted(f)
    THEN /\ out' = LoopOut(f, FALSE, FALSE, "", NoUrl, NoUrl, PollTimeoutError, f.attempt)
         /\ calls' = [calls EXCEPT ![s] = Idle]
         /\ UNCHANGED <<localStorage, lastPoll, claimed>>
    ELSE SvcStatus(s, f, t)

(* pollForJobCompletion(jobId, maxAttempts) is called. *)
SvcPollForJobCompletion(s, id, maxAttempts) ==
    /\ FreeSlot(s)
    /\ SvcLoop(s, [Frame("wait", "", id, NoJob, "", "") EXCEPT !.maxAttempts = maxAttempts], now)
    /\ UNCHANGED <<now, env, remote, issued, apiVars, expVars, appVars>>

(* The 5 s timer of line 361 fires and the loop goes on; the loops are followed *)
(* up to the instant PollHorizon.                                               *)
SvcWake(s) ==
    /\ calls[s].pc = "sleep"
    /\ now + PollWait <= PollHorizon
    /\ now' = now + PollWait
    /\ SvcLoop(s, calls[s], now + PollWait)
    /\ UNCHANGED <<env, remote, issued, apiVars, expVars, appVars>>

(* generateVideoAsync(config, tier) up to its first wait (lines 383-418). On the *)
(* image-sequence route the job is stored at once; the status check of line 399 *)
(* and the first one of the loop read it in the same instant, so both return    *)
(* processing (elapsed < 5000) and the call sleeps with one attempt made.       *)
SvcGenerateVideoAsync(s, config, tier) ==
    /\ FreeSlot(s)
    /\ MayCreate
    /\ \E r \in Rand :
        IF SvcRoutesToImage(tier)
        THEN LET jobId == <<"img", now, r>> IN
             /\ localStorage' = Put(localStorage, jobId, SvcImageJob(jobId, config, now))
             /\ issued' = issued \cup {jobId}
             /\ lastPoll' = Put(lastPoll, jobId, Snap("processing", NoUrl, NoUrl, "", FALSE))
             /\ calls' = [calls EXCEPT ![s] =
                    [Frame("wait", "sleep", jobId, NoJob, tier, "generate")
                     EXCEPT !.attempt = 1, !.maxAttempts = GenMaxAttempts,
                            !.seen = "processing"]]
        ELSE LET jobId == <<"job", now, r>> IN
             /\ calls' = [calls EXCEPT ![s] =
                    Frame("generate", "submit", jobId, SvcFalJob(jobId, NoRef, config, tier, 0),
                          tier, "generate")]
             /\ UNCHANGED <<localStorage, issued, lastPoll>>
    /\ UNCHANGED <<now, env, remote, out, claimed, apiVars, expVars, appVars>>

----------------------------------------------------------------------------
(* The environment: the clock and the providers *)

Tick(points) ==
    /\ \E t \in points : t > now /\ now' = t
    /\ UNCHANGED <<env, remote, localStorage, calls, out, issued, lastPoll, claimed,
                   apiVars, expVars, appVars>>

ProviderProgress(ref) ==
    /\ ref \in DOMAIN remote
    /\ \E st \in RemoteNext(remote[ref]) : remote' = [remote EXCEPT ![ref] = st]
    /\ UNCHANGED <<now, env, localStorage, calls, out, issued, lastPoll, claimed,
                   apiVars, expVars, appVars>>

----------------------------------------------------------------------------
(* The service and the handlers that call it *)

InitRest ==
    /\ remote = NoRemote
    /\ localStorage = Empty
    /\ calls = [s \in Slots |-> Idle]
    /\ out = NoOut
    /\ issued = {}
    /\ lastPoll = [x \in {} |-> NoSnap]
    /\ claimed = [x \in {} |-> 0]
    /\ jobStore = [x \in {} |-> NoApiJob]
    /\ globalJobStore = [x \in {} |-> NoExpJob]
    /\ userRateLimits = [x \in {} |-> NoLimit]
    /\ lastSweep = 0
    /\ passed = [x \in {} |-> <<>>]
    /\ user = DEFAULT_USER
    /\ generating = ""

InitSvc ==
    /\ now = 0
    /\ env \in [fal : KeyValues, piapi : {""}, google : {""}]
    /\ InitRest

Known == issued \cup {GhostId}

NextSvc ==
    \/ Tick(TimePoints)
    \/ \E ref \in DOMAIN remote : ProviderProgress(ref)
    \/ \E s \in Slots, config \in Configs, tier \in Tiers : SvcCreateVideoJob(s, config, tier)
    \/ \E s \in Slots, body \in Bodies : HttpCreate(s, body)
    \/ \E s \in Slots, r \in SubmitResponses : SvcSubmitReturn(s, r)
    \/ \E s \in Slots, op \in PollOps, id \in Known : SvcGetVideoJobStatus(s, op, id)
    \/ \E s \in Slots, k \in HeadOutcomes : SvcHeadReturn(s, k)
    \/ \E s \in Slots, r \in {"throw", "not_ok", "ok"} : SvcCheckReturn(s, r)

SpecSvc == InitSvc /\ [][NextSvc]_vars

(* The callers' side of the service: generateVideoAsync and pollForJobCompletion. *)
PollMaxAttempts == 2
PollConfigs == [prompt : Prompts, aspectRatio : {"9:16"}, duration : Durations]
PollTiers == {"free", "pro"}

NextPoll ==
    \/ Tick(TimePoints)
    \/ \E ref \in DOMAIN remote : ProviderProgress(ref)
    \/ \E s \in Slots, config \in PollConfigs, tier \in PollTiers :
           SvcCreateVideoJob(s, config, tier)
    \/ \E s \in Slots, config \in PollConfigs, tier \in PollTiers :
           SvcGenerateVideoAsync(s, config, tier)
    \/ \E s \in Slots, r \in SubmitResponses : SvcSubmitReturn(s, r)
    \/ \E s \in Slots, id \in Known, maxAttempts \in 0..PollMaxAttempts :
           SvcPollForJobCompletion(s, id, maxAttempts)
    \/ \E s \in Slots : SvcWake(s)
    \/ \E s \in Slots, op \in {"poll", "complete"}, id \in issued : SvcGetVideoJobStatus(s, op, id)
    \/ \E s \in Slots, k \in HeadOutcomes : SvcHeadReturn(s, k)
    \/ \E s \in Slots, r \in {"throw", "not_ok", "ok"} : SvcCheckReturn(s, r)

SpecPoll == InitSvc /\ [][NextPoll]_vars

(* One caller of generateVideoAsync on the free tier, awaiting each call: the  *)
(* only reader and writer of the store, so the record it stored stays there.   *)
(* A call is started while the horizon leaves room to follow it to its end;    *)
(* timers fire and the HEAD requests return or throw.                          *)
FreeCallStarts(s, config) ==
    /\ \A q \in Slots : calls[q] = Idle
    /\ now + PollWait <= PollHorizon
    /\ SvcGenerateVideoAsync(s, config, "free")

NextFree ==
    \/ Tick(TimePoints)
    \/ \E s \in Slots, config \in Configs : FreeCallStarts(s, config)
    \/ \E s \in Slots : SvcWake(s)
    \/ \E s \in Slots, k \in HeadOutcomes : SvcHeadReturn(s, k)

SpecFree ==
    /\ InitSvc /\ [][NextFree]_vars
    /\ WF_vars(\E s \in Slots : SvcWake(s))
    /\ WF_vars(\E s \in Slots, k \in HeadOutcomes : SvcHeadReturn(s, k))

----------------------------------------------------------------------------
(* api/video.ts: the handler with actions create, status and complete *)

ApiProcessingTime == 30000

ApiGetApiKey(provider) ==
    IF provider \in {"fal", "google", "piapi"} THEN env[provider] ELSE ""

ApiBodies == [prompt : Prompts, aspectRatio : Ratios, duration : Durations,
              tier : Tiers, provider : {"", "fal", "piapi", "google"}]

ApiSelectedProvider(body) ==
    IF body.provider # "" THEN body.provider
    ELSE IF body.tier = "free" THEN "piapi" ELSE "fal"

ApiMayCreate == Cardinality(issued) + InFlight("api_create") < ApiMaxJobs

(* createVideoJob up to the provider request (lines 64-136). *)
ApiCreateVideoJob(s, body) ==
    /\ FreeSlot(s)
    /\ ApiMayCreate
    /\ LET selectedProvider == ApiSelectedProvider(body) IN
       IF body.prompt = "" \/ body.aspectRatio = "" \/ body.duration = 0 \/ body.tier = ""
       THEN /\ out' = Out("api_create", NoId, TRUE, 400, FALSE, "", NoUrl, NoUrl,
                          "Missing required parameters", FALSE)
            /\ UNCHANGED calls
       ELSE IF ApiGetApiKey(selectedProvider) = ""
       THEN /\ out' = Out("api_create", NoId, TRUE, 503, FALSE, "", NoUrl, NoUrl,
                          "Video generation unavailable", FALSE)
            /\ UNCHANGED calls
       ELSE IF selectedProvider \notin {"fal", "piapi"}
       THEN /\ out' = Out("api_create", NoId, TRUE, 400, FALSE, "", NoUrl, NoUrl,
                          "Unsupported provider", FALSE)
            /\ UNCHANGED calls
       ELSE \E r \in Rand :
            LET jobId == <<"job", now, r>> IN
            /\ calls' = [calls EXCEPT ![s] = Frame("api_create", "api_submit", jobId,
                   [id |-> jobId, prompt |-> body.prompt, aspectRatio |-> body.aspectRatio,
                    duration |-> body.duration, tier |-> body.tier,
                    provider |-> selectedProvider, status |-> "queued", createdAt |-> now,
                    externalJobId |-> NoRef, error |-> ""],
                   body.tier, "")]
            /\ UNCHANGED out
    /\ UNCHANGED <<now, env, remote, issued, lastPoll, claimed, jobStore, svcVars, expVars, appVars>>

(* The provider answers the submission (lines 138-166). *)
ApiSubmitReturn(s, r) ==
    /\ calls[s].pc = "api_submit"
    /\ LET f == calls[s]
           ref == IF r = "ok_id" THEN NewRef(f.job.provider) ELSE f.id
       IN IF r \in {"ok_id", "ok_noid"}
          THEN /\ jobStore' = Put(jobStore, f.id,
                      [f.job EXCEPT !.externalJobId = ref, !.status = "processing"])
               /\ issued' = issued \cup {f.id}
               /\ remote' = IF r = "ok_id" THEN Put(remote, ref, "IN_QUEUE") ELSE remote
               /\ out' = Out("api_create", f.id, TRUE, 200, TRUE, "queued", NoUrl, NoUrl, "", FALSE)
          ELSE /\ out' = Out("api_create", NoId, TRUE, 500, FALSE, "", NoUrl, NoUrl,
                             "Failed to create video job", FALSE)
               /\ UNCHANGED <<jobStore, issued, remote>>
    /\ calls' = [calls EXCEPT ![s] = Idle]
    /\ UNCHANGED <<now, env, lastPoll, claimed, svcVars, expVars, appVars>>

ApiSetStatusSlip(store, job, status, error) ==
    IF job.id \in DOMAIN store /\ store[job.id].externalJobId = job.externalJobId
    THEN [store EXCEPT ![job.id] = [@ EXCEPT !.status = status]]
    ELSE store

(* job.status = ... at lines 205, 229 and 233 writes through the reference read *)
(* at line 179: the stored record changes only while it is still that object.   *)
ApiSetStatus(store, job, status, error) ==
    IF job.id \in DOMAIN store /\ store[job.id].externalJobId = job.externalJobId
    THEN [store EXCEPT ![job.id] = [@ EXCEPT !.status = status, !.error = error]]
    ELSE store

ApiSimulatedSnap(job, t) ==
    IF t - job.createdAt >= ApiProcessingTime
    THEN Snap("completed", Url("sample_video", "", 1280, 720, 0, NoId),
              Url("picsum", "", 320, 180, 0, job.id), "", FALSE)
    ELSE Snap("processing", NoUrl, NoUrl, "", FALSE)

(* Lines 219-238: the answer of the piapi status request turned into statusData. *)
ApiPiapiSnap(job, r) ==
    IF r = "ok"
    THEN LET data == remote[job.externalJobId] IN
         IF data = "completed"
         THEN Snap("completed", Url("provider", "", 0, 0, 0, job.externalJobId),
                   Url("provider_thumbnail", "", 0, 0, 0, job.externalJobId), "", FALSE)
         ELSE IF data = "failed"
         THEN Snap("failed", NoUrl, NoUrl, "Video generation failed", FALSE)
         ELSE Snap(data, NoUrl, NoUrl, "", FALSE)
    ELSE Snap(job.status, NoUrl, NoUrl, "", FALSE)

ApiRespond(id, snap) ==
    /\ out' = Out("api_status", id, TRUE, 200, FALSE, snap.status, snap.videoUrl,
                  snap.thumbnail, snap.error, FALSE)
    /\ lastPoll' = Put(lastPoll, id, snap)

(* getVideoJobStatus up to the provider request (lines 172-217, 241). *)
ApiGetVideoJobStatus(s, id) ==
    /\ FreeSlot(s)
    /\ IF id \notin DOMAIN jobStore
       THEN /\ out' = Out("api_status", id, FALSE, 404, FALSE, "", NoUrl, NoUrl,
                          "Job not found", FALSE)
            /\ UNCHANGED <<calls, jobStore, lastPoll>>
       ELSE LET job == jobStore[id] IN
            IF job.provider = "fal"
            THEN LET snap == ApiSimulatedSnap(job, now) IN
                 /\ ApiRespond(id, snap)
                 /\ jobStore' = IF snap.status = "completed"
                                THEN ApiSetStatus(jobStore, job, "completed", job.error)
                                ELSE jobStore
                 /\ UNCHANGED calls
            ELSE IF job.provider = "piapi"
            THEN /\ calls' = [calls EXCEPT ![s] = Frame("api_status", "api_check", id, job, "", "")]
                 /\ UNCHANGED <<out, jobStore, lastPoll>>
            ELSE /\ ApiRespond(id, Snap(job.status, NoUrl, NoUrl, "", FALSE))
                 /\ UNCHANGED <<calls, jobStore>>
    /\ UNCHANGED <<now, env, remote, issued, claimed, svcVars, expVars, appVars>>

(* The piapi status request answers (lines 219-249). *)
ApiCheckReturn(s, r) ==
    /\ calls[s].pc = "api_check"
    /\ r \in CheckResponses(calls[s].job.externalJobId)
    /\ LET f == calls[s]
           snap == ApiPiapiSnap(f.job, r)
       IN IF r = "throw"
          THEN /\ out' = Out("api_status", f.id, TRUE, 500, FALSE, "", NoUrl, NoUrl,
                             "Failed to check job status", FALSE)
               /\ UNCHANGED <<jobStore, lastPoll>>
          ELSE /\ ApiRespond(f.id, snap)
               /\ jobStore' = IF r = "ok" /\ snap.status \in {"completed", "failed"}
                              THEN ApiSetStatus(jobStore, f.job, snap.status, snap.error)
                              ELSE jobStore
    /\ calls' = [calls EXCEPT ![s] = Idle]
    /\ UNCHANGED <<now, env, remote, issued, claimed, svcVars, expVars, appVars>>

ApiCompleteVideoJobSlip(id) ==
    /\ IF id \notin DOMAIN jobStore
       THEN /\ out' = Out("api_complete", id, FALSE, 404, FALSE, "", NoUrl, NoUrl,
                          "Job not found", FALSE)
            /\ UNCHANGED <<jobStore, claimed>>
       ELSE IF jobStore[id].status # "completed"
       THEN /\ out' = Out("api_complete", id, TRUE, 400, FALSE, jobStore[id].status, NoUrl, NoUrl,
                          "Job not completed", FALSE)
            /\ jobStore' = Remove(jobStore, id)
            /\ UNCHANGED claimed
       ELSE /\ out' = Out("api_complete", id, TRUE, 200, TRUE, "", NoUrl, NoUrl, "", FALSE)
            /\ jobStore' = Remove(jobStore, id)
            /\ claimed' = Put(claimed, id, IF id \in DOMAIN claimed THEN claimed[id] + 1 ELSE 1)
    /\ UNCHANGED <<now, env, remote, calls, issued, lastPoll, svcVars, expVars, appVars>>

(* completeVideoJob (lines 255-291); the record has no videoUrl or thumbnail    *)
(* field, so job.videoUrl and job.thumbnail are undefined.                      *)
ApiCompleteVideoJob(id) ==
    /\ IF id \notin DOMAIN jobStore
       THEN /\ out' = Out("api_complete", id, FALSE, 404, FALSE, "", NoUrl, NoUrl,
                          "Job not found", FALSE)
            /\ UNCHANGED <<jobStore, claimed>>
       ELSE IF jobStore[id].status # "completed"
       THEN /\ out' = Out("api_complete", id, TRUE, 400, FALSE, jobStore[id].status, NoUrl, NoUrl,
                          "Job not completed", FALSE)
            /\ UNCHANGED <<jobStore, claimed>>
       ELSE /\ out' = Out("api_complete", id, TRUE, 200, TRUE, "", NoUrl, NoUrl, "", FALSE)
            /\ jobStore' = Remove(jobStore, id)
            /\ claimed' = Put(claimed, id, IF id \in DOMAIN claimed THEN claimed[id] + 1 ELSE 1)
    /\ UNCHANGED <<now, env, remote, calls, issued, lastPoll, svcVars, expVars, appVars>>

InitApi ==
    /\ now = 0
    /\ env \in [fal : KeyValues, piapi : KeyValues, google : KeyValues]
    /\ InitRest

NextApi ==
    \/ Tick(TimePoints)
    \/ \E ref \in DOMAIN remote : ProviderProgress(ref)
    \/ \E s \in Slots, body \in ApiBodies : ApiCreateVideoJob(s, body)
    \/ \E s \in Slots, r \in SubmitResponses : ApiSubmitReturn(s, r)
    \/ \E s \in Slots, id \in Known : ApiGetVideoJobStatus(s, id)
    \/ \E s \in Slots, r \in {"throw", "not_ok", "ok"} : ApiCheckReturn(s, r)
    \/ \E id \in Known : ApiCompleteVideoJob(id)

SpecApi == InitApi /\ [][NextApi]_vars

----------------------------------------------------------------------------
(* The Express server: POST /api/video/create, GET /api/video/status and the   *)
(* cleanup interval                                                            *)

MAX_REQUESTS_PER_MINUTE == 10
MAX_CONCURRENT_JOBS == 3
ExpRateWindow == 60000
ExpImageProcessingTime == 5000
ExpVideoProcessingTime == 30000
ExpMaxAge == 3600000
ExpSweepInterval == 300000

Users == {"u1"}
ExpTimePoints == {5000, 3600000, 3900000}
ExpBodies == [userId : Users \cup {""}, prompt : Prompts \cup {"", " "},
              aspectRatio : {"9:16", "4:3"},
              duration : {10, 20}, provider : {"fal"}, tier : Tiers]

Trim(prompt) == IF prompt = " " THEN "" ELSE prompt

RECURSIVE Recent(_, _)
(* requests.filter(time => now - time < 60000) *)
Recent(requests, t) ==
    IF requests = <<>> THEN <<>>
    ELSE IF t - Head(requests) < ExpRateWindow
         THEN <<Head(requests)>> \o Recent(Tail(requests), t)
         ELSE Recent(Tail(requests), t)

ExpRateLimitedSlip(limits, userId, t) ==
    userId \in DOMAIN limits
    /\ Len(Recent(limits[userId].requests, t)) > MAX_REQUESTS_PER_MINUTE

(* rateLimitMiddleware: "400", "429" or the limits after the request is counted. *)
ExpRateLimited(limits, userId, t) ==
    userId \in DOMAIN limits
    /\ Len(Recent(limits[userId].requests, t)) >= MAX_REQUESTS_PER_MINUTE

ExpCountRequestSlip(limits, userId, t) ==
    IF userId \in DOMAIN limits
    THEN [limits EXCEPT ![userId].requests = Recent(@, t) \o <<t>>,
                        ![userId].activeJobs = @ + 1]
    ELSE Put(limits, userId, [requests |-> <<t>>, activeJobs |-> 1])

ExpCountRequest(limits, userId, t) ==
    IF userId \in DOMAIN limits
    THEN [limits EXCEPT ![userId].requests = Recent(@, t) \o <<t>>]
    ELSE Put(limits, userId, [requests |-> <<t>>, activeJobs |-> 0])

ExpMaxDuration(tier) == IF tier = "free" THEN 10 ELSE IF tier = "basic" THEN 15 ELSE 30

(* The validation of the create handler: the error it answers, or "". *)
ExpInvalid(body) ==
    IF body.prompt = "" \/ body.aspectRatio = "" \/ body.provider = "" \/ body.tier = ""
       \/ body.userId = ""
    THEN "Missing required fields"
    ELSE IF body.tier \notin {"free", "basic", "pro"} THEN "Invalid tier"
    ELSE IF body.aspectRatio \notin {"9:16", "16:9", "1:1"} THEN "Invalid aspect ratio"
    ELSE IF body.duration < 3 \/ body.duration > ExpMaxDuration(body.tier) THEN "Invalid duration"
    ELSE ""

ExpError(http, error) == Out("exp_create", NoId, TRUE, http, FALSE, "", NoUrl, NoUrl, error, FALSE)

PassedOf(userId) == IF userId \in DOMAIN passed THEN passed[userId] ELSE <<>>

ExpMayRequest(userId) ==
    /\ Cardinality(issued) < ExpMaxJobs
    /\ Len(PassedOf(userId)) < ExpMaxRequests

(* POST /api/video/create: rateLimitMiddleware, jobLimitMiddleware, handler. *)
ExpCreateHandler(body) ==
    /\ IF body.userId = ""
       THEN /\ out' = ExpError(400, "User ID required")
            /\ UNCHANGED <<userRateLimits, globalJobStore, issued, passed>>
       ELSE IF ExpRateLimited(userRateLimits, body.userId, now)
       THEN /\ out' = ExpError(429, "Rate limit exceeded")
            /\ UNCHANGED <<userRateLimits, globalJobStore, issued, passed>>
       ELSE LET counted == ExpCountRequest(userRateLimits, body.userId, now) IN
            /\ passed' = Put(passed, body.userId, PassedOf(body.userId) \o <<now>>)
            /\ IF counted[body.userId].activeJobs >= MAX_CONCURRENT_JOBS
               THEN /\ out' = ExpError(429, "Too many concurrent jobs")
                    /\ userRateLimits' = counted
                    /\ UNCHANGED <<globalJobStore, issued>>
               ELSE IF ExpInvalid(body) # ""
               THEN /\ out' = ExpError(400, ExpInvalid(body))
                    /\ userRateLimits' = counted
                    /\ UNCHANGED <<globalJobStore, issued>>
               ELSE \E r \in Rand :
                    LET jobId == <<IF body.tier = "free" THEN "img" ELSE "job", now, r>> IN
                    /\ userRateLimits' = [counted EXCEPT ![body.userId].activeJobs = @ + 1]
                    /\ globalJobStore' = Put(globalJobStore, jobId,
                           [id |-> jobId, userId |-> body.userId, prompt |-> Trim(body.prompt),
                            aspectRatio |-> body.aspectRatio,
                            duration |-> Min(body.duration, ExpMaxDuration(body.tier)),
                            tier |-> body.tier,
                            provider |-> IF body.tier = "free" THEN "image" ELSE body.provider,
                            status |-> "queued", createdAt |-> now,
                            isImageSequence |-> body.tier = "free"])
                    /\ issued' = issued \cup {jobId}
                    /\ out' = Out("exp_create", jobId, TRUE, 200, TRUE, "queued", NoUrl, NoUrl, "",
                                  body.tier = "free")
    /\ UNCHANGED <<now, env, remote, calls, lastPoll, claimed, lastSweep, svcVars, apiVars, appVars>>

ExpCreate(body) == ExpMayRequest(body.userId) /\ ExpCreateHandler(body)

ExpIsImageJob(id, job) == id[1] = "img" \/ job.isImageSequence
ExpProcessingTime(isImageJob) ==
    IF isImageJob THEN ExpImageProcessingTime ELSE ExpVideoProcessingTime

ExpStatusOf(id, job, t) ==
    IF t - job.createdAt >= ExpProcessingTime(ExpIsImageJob(id, job))
    THEN "completed" ELSE "processing"

ExpSnap(id, job, t) ==
    IF ExpStatusOf(id, job, t) = "processing"
    THEN Snap("processing", NoUrl, NoUrl, "", ExpIsImageJob(id, job))
    ELSE IF ExpIsImageJob(id, job)
    THEN Snap("completed", Url("pollinations_image", job.prompt, 768, 1024, 0, id),
              Url("pollinations_image", job.prompt, 768, 1024, 0, id), "", TRUE)
    ELSE Snap("completed", Url("sample_video", "", 1280, 720, 0, NoId),
              Url("picsum", "", 640, 360, 0, id), "", FALSE)

ExpProgressSlip(status, elapsed) ==
    IF status = "processing" THEN (elapsed \div 1000) * 10 ELSE 100

(* Line 360: Math.min(90, Math.floor(elapsed / 1000) * 10), or 100. *)
ExpProgress(status, elapsed) ==
    IF status = "processing" THEN Min(90, (elapsed \div 1000) * 10) ELSE 100

ExpEstimatedRemaining(status, isImageJob, elapsed) ==
    IF status = "processing" /\ ExpProcessingTime(isImageJob) > elapsed
    THEN ExpProcessingTime(isImageJob) - elapsed ELSE 0

(* Lines 329-333 and 343-347: a completed status releases an active job. *)
ExpRelease(limits, userId) ==
    IF userId \in DOMAIN limits /\ limits[userId].activeJobs > 0
    THEN [limits EXCEPT ![userId].activeJobs = @ - 1]
    ELSE limits

(* GET /api/video/status *)
ExpStatus(id) ==
    /\ IF id \notin DOMAIN globalJobStore
       THEN /\ out' = Out("exp_status", id, FALSE, 404, FALSE, "", NoUrl, NoUrl,
                          "Job not found", FALSE)
            /\ UNCHANGED <<userRateLimits, lastPoll>>
       ELSE LET job == globalJobStore[id]
                snap == ExpSnap(id, job, now)
                elapsed == now - job.createdAt
            IN /\ out' = [Out("exp_status", id, TRUE, 200, TRUE, snap.status, snap.videoUrl,
                              snap.thumbnail, "", snap.isImageSequence)
                          EXCEPT !.progress = ExpProgress(snap.status, elapsed),
                                 !.estimatedRemaining =
                                     ExpEstimatedRemaining(snap.status, snap.isImageSequence, elapsed),
                                 !.createdAt = job.createdAt,
                                 !.updatedAt = now]
               /\ userRateLimits' = IF snap.status = "completed"
                                    THEN ExpRelease(userRateLimits, job.userId)
                                    ELSE userRateLimits
               /\ lastPoll' = Put(lastPoll, id, snap)
    /\ UNCHANGED <<now, env, remote, calls, issued, claimed, globalJobStore, lastSweep,
                   passed, svcVars, apiVars, appVars>>

ExpExpiredSlip(job, t) == t - job.createdAt > 10 * ExpMaxAge

(* The cleanup interval deletes a job when this holds of it at time t. *)
ExpExpired(job, t) == t - job.createdAt > ExpMaxAge

(* setInterval(..., 300000): the cleanup of old jobs and of rate-limit data. *)
ExpSweep ==
    /\ now - lastSweep >= ExpSweepInterval
    /\ lastSweep' = now
    /\ globalJobStore' =
           [id \in {x \in DOMAIN globalJobStore : ~ExpExpired(globalJobStore[x], now)}
               |-> globalJobStore[id]]
    /\ userRateLimits' =
           [u \in {x \in DOMAIN userRateLimits :
                       ~(userRateLimits[x].requests = <<>> /\ userRateLimits[x].activeJobs = 0)}
               |-> [userRateLimits[u] EXCEPT !.requests = Recent(@, now)]]
    /\ UNCHANGED <<now, env, remote, calls, out, issued, lastPoll, claimed, passed,
                   svcVars, apiVars, appVars>>

InitExp ==
    /\ now = 0
    /\ env \in [fal : {""}, piapi : {""}, google : {""}]
    /\ InitRest

NextExp ==
    \/ Tick(ExpTimePoints)
    \/ \E body \in ExpBodies : ExpCreate(body)
    \/ \E id \in Known : ExpStatus(id)
    \/ ExpSweep

SpecExp == InitExp /\ [][NextExp]_vars

(* The Express server taking create requests until IdsMaxJobs ids are in use. *)
IdsMaxJobs == 2

NextIds ==
    \/ Tick(ExpTimePoints)
    \/ \E body \in ExpBodies :
           /\ Cardinality(issued) < IdsMaxJobs
           /\ Len(PassedOf(body.userId)) < ExpMaxRequests
           /\ ExpCreateHandler(body)
    \/ \E id \in Known : ExpStatus(id)

SpecIds == InitExp /\ [][NextIds]_vars

(* The Express server under a burst of create requests from one user: the      *)
(* requests are taken until RateMaxRequests of them have passed the rate limit. *)
RateMaxRequests == 11
RateTimePoints == {59999, 60000, 250000, 300000}
RateBodies == {b \in ExpBodies : /\ b.userId \in Users /\ b.prompt \in Prompts
                                 /\ b.duration = 10 /\ b.tier = "free"}

NextRate ==
    \/ Tick(RateTimePoints)
    \/ \E body \in RateBodies :
           /\ Len(PassedOf(body.userId)) < RateMaxRequests
           /\ ExpInvalid(body) = "" => Cardinality(issued) < ExpMaxJobs
           /\ ExpCreateHandler(body)
    \/ ExpSweep

SpecRate == InitExp /\ [][NextRate]_vars

(* The Express server taking creates of one user, an image-sequence job and    *)
(* provider jobs, with their status polls.                                     *)
JobsMaxJobs == 5
JobsMaxRequests == 6
JobsTimePoints == {5000}
JobsBodies == {b \in ExpBodies : /\ b.userId \in Users /\ b.prompt \in Prompts
                                 /\ b.aspectRatio = "9:16" /\ b.duration = 10
                                 /\ b.tier \in {"free", "pro"}}

NextJobs ==
    \/ Tick(JobsTimePoints)
    \/ \E body \in JobsBodies :
           /\ Cardinality(issued) < JobsMaxJobs
           /\ Len(PassedOf(body.userId)) < JobsMaxRequests
           /\ ExpCreateHandler(body)
    \/ \E id \in issued : ExpStatus(id)

SpecJobs == InitExp /\ [][NextJobs]_vars

(* The same creates by a user who never polls, and the cleanup interval. *)
NextAbandon ==
    \/ Tick(ExpTimePoints)
    \/ \E body \in JobsBodies :
           /\ Cardinality(issued) < JobsMaxJobs
           /\ Len(PassedOf(body.userId)) < JobsMaxRequests
           /\ ExpCreateHandler(body)
    \/ ExpSweep

SpecAbandon == InitExp /\ [][NextAbandon]_vars

(* The Express server taking one request of each kind the create route         *)
(* refuses, and valid ones, from one user within and after a rate window.      *)
RefuseBodies ==
    {[userId |-> u, prompt |-> p, aspectRatio |-> a, duration |-> d, provider |-> "fal",
      tier |-> t] :
        u \in {"u1"}, p \in {"sunset"}, a \in {"9:16"}, d \in {10}, t \in {"free"}}
    \cup {[userId |-> "", prompt |-> "sunset", aspectRatio |-> "9:16", duration |-> 10,
           provider |-> "fal", tier |-> "free"],
          [userId |-> "u1", prompt |-> "", aspectRatio |-> "9:16", duration |-> 10,
           provider |-> "fal", tier |-> "free"],
          [userId |-> "u1", prompt |-> "sunset", aspectRatio |-> "9:16", duration |-> 10,
           provider |-> "fal", tier |-> "gold"],
          [userId |-> "u1", prompt |-> "sunset", aspectRatio |-> "4:3", duration |-> 10,
           provider |-> "fal", tier |-> "free"],
          [userId |-> "u1", prompt |-> "sunset", aspectRatio |-> "9:16", duration |-> 20,
           provider |-> "fal", tier |-> "free"]}

NextRefuse ==
    \/ Tick({ExpRateWindow})
    \/ \E body \in RefuseBodies :
           /\ Cardinality(issued) < JobsMaxJobs
           /\ Len(PassedOf(body.userId)) < RateMaxRequests
           /\ ExpCreateHandler(body)

SpecRefuse == InitExp /\ [][NextRefuse]_vars

(* The Express server polled at instants around the steps of the progress      *)
(* formula and the two processing times.                                       *)
ProgressTimePoints == {1000, 4999, 5000, 9000, 29999, 30000}

NextProgress ==
    \/ Tick(ProgressTimePoints)
    \/ \E body \in JobsBodies : ExpMayRequest(body.userId) /\ ExpCreateHandler(body)
    \/ \E id \in issued : ExpStatus(id)

SpecProgress == InitExp /\ [][NextProgress]_vars

----------------------------------------------------------------------------
(* The backend handler of POST /api/generate (second handler of                *)
(* api/video/status.ts): one provider request, answered or thrown.             *)

GenBodies == [provider : {"", "fal", "google", "piapi", "other"}, prompt : Prompts \cup {""},
              aspectRatio : Ratios]
GenResponses == {"throw", "not_json", "not_ok", "ok"}

(* hasApiKey *)
GenHasApiKey(provider) == provider \in {"fal", "google", "piapi"} /\ env[provider] # ""

GenAnswer(http, success, error, fallback) ==
    [Out("api_generate", NoId, TRUE, http, success, "", NoUrl, NoUrl, error, FALSE)
     EXCEPT !.fallback = fallback]

(* The handler up to its fetch (lines 60-91, 96-102, 107-116, 121). *)
GenHandler(s, body) ==
    /\ FreeSlot(s)
    /\ IF body.provider = "" \/ body.prompt = ""
       THEN /\ out' = GenAnswer(400, FALSE, "Missing parameters", FALSE)
            /\ UNCHANGED calls
       ELSE IF ~GenHasApiKey(body.provider)
       THEN /\ out' = GenAnswer(503, FALSE,
                   "Video generation unavailable. Please try again later or add API keys for better quality.",
                   TRUE)
            /\ UNCHANGED calls
       ELSE /\ calls' = [calls EXCEPT ![s] =
                   Frame("api_generate", "gen_fetch", NoId,
                         [NoJob EXCEPT !.prompt = body.prompt, !.aspectRatio = body.aspectRatio,
                                       !.provider = body.provider], "", "")]
            /\ UNCHANGED out
    /\ UNCHANGED <<now, env, remote, issued, lastPoll, claimed,
                   svcVars, apiVars, expVars, appVars>>

(* The fetch answered: const data = await r.json(); res.status(200).json(data), *)
(* or the catch block (lines 92-93, 103-104, 117-118, 122-129).                 *)
GenFetchReturn(s, r) ==
    /\ calls[s].pc = "gen_fetch"
    /\ out' = IF r \in {"throw", "not_json"}
              THEN GenAnswer(500, FALSE, "Video generation unavailable. Please try again later.",
                             TRUE)
              ELSE GenAnswer(200, r = "ok", IF r = "ok" THEN "" ELSE "provider error", FALSE)
    /\ calls' = [calls EXCEPT ![s] = Idle]
    /\ UNCHANGED <<now, env, remote, issued, lastPoll, claimed,
                   svcVars, apiVars, expVars, appVars>>

InitGen ==
    /\ now = 0
    /\ env \in [fal : KeyValues, piapi : KeyValues, google : KeyValues]
    /\ InitRest

NextGen ==
    \/ \E s \in Slots, body \in GenBodies : GenHandler(s, body)
    \/ \E s \in Slots, r \in GenResponses : GenFetchReturn(s, r)

SpecGen == InitGen /\ [][NextGen]_vars

----------------------------------------------------------------------------

(* The fal submission handler (api/generate.ts): validation, then one          *)
(* fal.queue.submit.                                                           *)

(* req.method and req.body. A JSON value is a record of its type and content:  *)
(* duration may be absent, a number, a numeric string or other text.           *)
FalPrompts == {[kind |-> "string", text |-> "sunset"], [kind |-> "string", text |-> ""],
               [kind |-> "number", text |-> "42"], [kind |-> "absent", text |-> ""]}
FalDurations == {[kind |-> "absent", n |-> 0], [kind |-> "number", n |-> 5],
                 [kind |-> "number", n |-> 10], [kind |-> "number", n |-> 11],
                 [kind |-> "numeric_string", n |-> 20], [kind |-> "text", n |-> 0]}
FalRequests == [method : {"POST", "GET"}, prompt : FalPrompts, duration : FalDurations]

(* const { prompt, duration = 5 } = req.body; duration > 10: a numeric string  *)
(* is converted to its number, other text to NaN, and NaN > 10 is false.       *)
FalDurationExceeds(d) ==
    IF d.kind = "absent" THEN 5 > 10
    ELSE IF d.kind \in {"number", "numeric_string"} THEN d.n > 10
    ELSE FALSE

FalAnswer(http, success, error) ==
    Out("fal_submit", NoId, TRUE, http, success, "", NoUrl, NoUrl, error, FALSE)

(* handler up to await fal.queue.submit (lines 8-49). *)
FalHandler(s, req) ==
    /\ FreeSlot(s)
    /\ IF req.method # "POST"
       THEN out' = FalAnswer(405, FALSE, "Method not allowed") /\ UNCHANGED calls
       ELSE IF env.fal = ""
       THEN out' = FalAnswer(500, FALSE, "FAL_API_KEY is not configured") /\ UNCHANGED calls
       ELSE IF req.prompt.kind # "string" \/ req.prompt.text = ""
       THEN out' = FalAnswer(400, FALSE, "Invalid prompt") /\ UNCHANGED calls
       ELSE IF FalDurationExceeds(req.duration)
       THEN out' = FalAnswer(403, FALSE, "Video duration exceeds allowed limit")
            /\ UNCHANGED calls
       ELSE /\ calls' = [calls EXCEPT ![s] =
                   [Frame("fal_submit", "fal_queue", NoId,
                          [NoJob EXCEPT !.prompt = req.prompt.text, !.duration = req.duration.n],
                          "", "")
                    EXCEPT !.seen = req.duration.kind]]
            /\ UNCHANGED out
    /\ UNCHANGED <<now, env, remote, issued, lastPoll, claimed,
                   svcVars, apiVars, expVars, appVars>>

(* fal.queue.submit resolved or threw (lines 51-60). *)
FalSubmitReturn(s, r) ==
    /\ calls[s].pc = "fal_queue"
    /\ out' = IF r = "ok" THEN FalAnswer(200, TRUE, "")
              ELSE FalAnswer(500, FALSE, "Failed to submit generation job")
    /\ calls' = [calls EXCEPT ![s] = Idle]
    /\ UNCHANGED <<now, env, remote, issued, lastPoll, claimed,
                   svcVars, apiVars, expVars, appVars>>

NextFal ==
    \/ \E s \in Slots, req \in FalRequests : FalHandler(s, req)
    \/ \E s \in Slots, r \in {"throw", "ok"} : FalSubmitReturn(s, r)

SpecFal == InitGen /\ [][NextFal]_vars

----------------------------------------------------------------------------

(* The legacy client service (videoService.ts): generateVideo, which awaits    *)
(* the provider and falls back to an image sequence.                           *)

(* types.ts PRICING[tier].maxLength *)
PricingMaxLength(tier) == IF tier = "free" THEN 10 ELSE IF tier = "basic" THEN 15 ELSE 30

(* part_001 getAspectRatioDimensions *)
AspectWidth(ratio) ==
    CASE ratio = "9:16" -> 576 [] ratio = "16:9" -> 1024 [] ratio = "1:1" -> 720 [] OTHER -> 576
AspectHeight(ratio) ==
    CASE ratio = "9:16" -> 1024 [] ratio = "16:9" -> 576 [] ratio = "1:1" -> 720 [] OTHER -> 1024

LegMaxCalls == 1
LegKeyValues == {"", "demo_key", "sk_live"}
LegPollMaxAttempts == 30
LegNumFrames == 3
LegUnavailable == "Video generation unavailable. Please try again later or add API keys for better quality."

(* getStoredKey: the user's key, or the demo key of DEFAULT_API_KEYS. *)
LegGetStoredKey(provider) == IF env[provider] # "" THEN env[provider] ELSE "demo_key"
LegUserKey(provider) == LegGetStoredKey(provider) # "" /\ LegGetStoredKey(provider) # "demo_key"

LegFrame(pc, config, tier, attempt) ==
    [Frame("legacy", pc, NoId,
           [NoJob EXCEPT !.prompt = config.prompt, !.aspectRatio = config.aspectRatio,
                         !.duration = Min(config.duration, PricingMaxLength(tier))],
           tier, "")
     EXCEPT !.attempt = attempt]

LegResult(success, videoUrl, error, isImageSequence) ==
    Out("legacy", NoId, TRUE, 0, success, "", videoUrl, NoUrl, error, isImageSequence)

(* generateVideo up to its first await (lines 239-282). *)
LegGenerateVideo(s, config, tier) ==
    /\ FreeSlot(s)
    /\ InFlight("legacy") < LegMaxCalls
    /\ calls' = [calls EXCEPT ![s] =
           IF tier = "free"
           THEN IF LegUserKey("piapi") THEN LegFrame("leg_piapi", config, tier, 0)
                ELSE LegFrame("leg_head", config, tier, 0)
           ELSE IF LegUserKey("fal") THEN LegFrame("leg_fal", config, tier, 0)
                ELSE LegFrame("leg_head", config, tier, 0)]
    /\ UNCHANGED <<now, env, remote, out, issued, lastPoll, claimed,
                   svcVars, apiVars, expVars, appVars>>

(* generateWithPiAPI: the submission answers (lines 66-107); a failure makes   *)
(* generateVideo go on to the image sequence.                                  *)
LegPiapiReturn(s, r) ==
    /\ calls[s].pc = "leg_piapi"
    /\ calls' = [calls EXCEPT ![s] = IF r = "ok" THEN [@ EXCEPT !.pc = "leg_poll"]
                                     ELSE [@ EXCEPT !.pc = "leg_head"]]
    /\ UNCHANGED <<now, env, remote, out, issued, lastPoll, claimed,
                   svcVars, apiVars, expVars, appVars>>

(* pollForCompletion: one status request answers (lines 207-232). *)
LegPollReturn(s, r) ==
    /\ calls[s].pc = "leg_poll"
    /\ LET f == calls[s] IN
       IF r \in {"completed", "completed_nourl"}
       THEN /\ out' = LegResult(TRUE, IF r = "completed"
                                      THEN Url("provider", "", 0, 0, 0, NoId) ELSE NoUrl,
                                "", FALSE)
            /\ calls' = [calls EXCEPT ![s] = Idle]
       ELSE IF r \in {"failed", "throw"} \/ f.attempt + 1 >= LegPollMaxAttempts
       THEN /\ calls' = [calls EXCEPT ![s] = [f EXCEPT !.pc = "leg_head", !.attempt = 0]]
            /\ UNCHANGED out
       ELSE /\ calls' = [calls EXCEPT ![s] = [f EXCEPT !.attempt = @ + 1]]
            /\ UNCHANGED out
    /\ UNCHANGED <<now, env, remote, issued, lastPoll, claimed,
                   svcVars, apiVars, expVars, appVars>>

(* The error generateWithFAL returns for an answer that is not a success. *)
LegFalError(r) == IF r = "not_ok" THEN "FAL error" ELSE "FAL generation failed"

(* generateWithFAL answers and generateVideo returns what it returned          *)
(* (lines 115-156, 269-276).                                                   *)
LegFalReturn(s, r) ==
    /\ calls[s].pc = "leg_fal"
    /\ out' = IF r \in {"ok", "ok_nourl"}
              THEN LegResult(TRUE, IF r = "ok" THEN Url("provider", "", 0, 0, 0, NoId) ELSE NoUrl,
                             "", FALSE)
              ELSE LegResult(FALSE, NoUrl, LegFalError(r), FALSE)
    /\ calls' = [calls EXCEPT ![s] = Idle]
    /\ UNCHANGED <<now, env, remote, issued, lastPoll, claimed,
                   svcVars, apiVars, expVars, appVars>>

(* generateWithImageSequence: the HEAD request of one frame answers            *)
(* (lines 162-201).                                                            *)
LegHeadReturn(s, ok) ==
    /\ calls[s].pc = "leg_head"
    /\ LET f == calls[s] IN
       IF ~ok
       THEN /\ out' = LegResult(FALSE, NoUrl, LegUnavailable, FALSE)
            /\ calls' = [calls EXCEPT ![s] = Idle]
       ELSE IF f.attempt + 1 >= LegNumFrames
       THEN /\ out' = LegResult(TRUE,
                         Url("pollinations_image", f.job.prompt, AspectWidth(f.job.aspectRatio),
                             AspectHeight(f.job.aspectRatio), 0, NoId),
                         "", TRUE)
            /\ calls' = [calls EXCEPT ![s] = Idle]
       ELSE /\ calls' = [calls EXCEPT ![s] = [f EXCEPT !.attempt = @ + 1]]
            /\ UNCHANGED out
    /\ UNCHANGED <<now, env, remote, issued, lastPoll, claimed,
                   svcVars, apiVars, expVars, appVars>>

InitLegacy ==
    /\ now = 0
    /\ env \in [fal : LegKeyValues, piapi : LegKeyValues, google : {""}]
    /\ InitRest

NextLegacy ==
    \/ \E s \in Slots, config \in Configs, tier \in Tiers : LegGenerateVideo(s, config, tier)
    \/ \E s \in Slots, r \in {"throw", "not_ok", "ok"} : LegPiapiReturn(s, r)
    \/ \E s \in Slots, r \in {"completed", "completed_nourl", "failed", "throw", "pending"} :
           LegPollReturn(s, r)
    \/ \E s \in Slots, r \in {"throw", "not_ok", "ok", "ok_nourl"} : LegFalReturn(s, r)
    \/ \E s \in Slots, ok \in BOOLEAN : LegHeadReturn(s, ok)

SpecLegacy == InitLegacy /\ [][NextLegacy]_vars

----------------------------------------------------------------------------

(* The app (neoclip3p/src/App.tsx): the generation quota of the signed-in user *)

AppMaxGenerations == 121
AppTimePoints == {AppMonth}
AppPrompts == {"sunset", " "}

gensPerMonth(tier) == IF tier = "free" THEN 10 ELSE IF tier = "basic" THEN 120 ELSE 300

(* getRemainingGenerations *)
AppRemainingGenerations(u) ==
    IF u.tier = "free"
    THEN IF gensPerMonth("free") > u.freeUsed THEN gensPerMonth("free") - u.freeUsed ELSE 0
    ELSE IF gensPerMonth(u.tier) > u.paidUsed THEN gensPerMonth(u.tier) - u.paidUsed ELSE 0

AppToast(error) == Out("app_generate", NoId, TRUE, 0, FALSE, "", NoUrl, NoUrl, error, FALSE)

(* The reason handleGenerate refuses a request with, or "". *)
AppRefusal(u, prompt, selectedTier) ==
    IF Trim(prompt) = "" THEN "Please enter a prompt"
    ELSE IF selectedTier = "free" /\ AppRemainingGenerations(u) <= 0
    THEN "Free limit reached. Upgrade for more!"
    ELSE IF selectedTier # "free" /\ u.tier = "free" THEN "Upgrade to use paid tiers"
    ELSE ""

(* loadUserState, run when the app starts *)
AppLoad ==
    /\ user' = IF user.resetsAt <= now
               THEN [user EXCEPT !.freeUsed = 0, !.paidUsed = 0,
                                 !.resetsAt = NextMonthStart(now)]
               ELSE user
    /\ generating' = ""
    /\ UNCHANGED <<now, env, remote, calls, out, issued, lastPoll, claimed,
                   svcVars, apiVars, expVars>>

(* handleUpgrade *)
AppUpgrade(tier) ==
    /\ tier # "free"
    /\ user' = [user EXCEPT !.tier = tier]
    /\ UNCHANGED <<now, env, remote, calls, out, issued, lastPoll, claimed, generating,
                   svcVars, apiVars, expVars>>

(* handleGenerate up to await generateVideo(config, selectedTier); the button  *)
(* is disabled while isGenerating.                                             *)
AppHandleGenerate(prompt, selectedTier) ==
    /\ generating = ""
    /\ user.freeUsed + user.paidUsed < AppMaxGenerations
    /\ IF AppRefusal(user, prompt, selectedTier) # ""
       THEN /\ out' = AppToast(AppRefusal(user, prompt, selectedTier))
            /\ UNCHANGED generating
       ELSE /\ generating' = selectedTier
            /\ UNCHANGED out
    /\ UNCHANGED <<now, env, remote, calls, issued, lastPoll, claimed, user,
                   svcVars, apiVars, expVars>>

(* handleGenerate after generateVideo returned result. *)
AppGenerateReturn(success) ==
    /\ generating # ""
    /\ IF success
       THEN /\ user' = IF generating = "free"
                       THEN [user EXCEPT !.freeUsed = @ + 1]
                       ELSE [user EXCEPT !.paidUsed = @ + 1]
            /\ out' = [AppToast("") EXCEPT !.success = TRUE, !.status = generating]
       ELSE /\ out' = AppToast("Generation failed")
            /\ UNCHANGED user
    /\ generating' = ""
    /\ UNCHANGED <<now, env, remote, calls, issued, lastPoll, claimed,
                   svcVars, apiVars, expVars>>

InitApp ==
    /\ now = 0
    /\ env \in [fal : {""}, piapi : {""}, google : {""}]
    /\ InitRest

NextApp ==
    \/ Tick(AppTimePoints)
    \/ AppLoad
    \/ \E tier \in Tiers : AppUpgrade(tier)
    \/ \E prompt \in AppPrompts, selectedTier \in Tiers : AppHandleGenerate(prompt, selectedTier)
    \/ \E success \in BOOLEAN : AppGenerateReturn(success)

SpecApp == InitApp /\ [][NextApp]_vars

----------------------------------------------------------------------------
(* Properties *)

Statuses == {"queued", "processing", "completed", "failed"}
Terminal == {"completed", "failed"}

(* C1: the statuses the polls of one job return only move forward: once a poll *)
(* has returned completed or failed, every later poll of that job returns the  *)
(* same terminal status.                                                       *)
C1_PollsOnlyMoveForward ==
    [][\A id \in DOMAIN lastPoll :
          lastPoll[id].status \in Terminal => lastPoll'[id].status = lastPoll[id].status]_vars

(* C2: finalize succeeds exactly once per completed job: at most one call on an *)
(* id returns the result, and every other call on that id fails with           *)
(* "Job not found".                                                            *)
C2_FinalizeExactlyOnce ==
    /\ \A id \in DOMAIN claimed : claimed[id] <= 1
    /\ (out.op = "complete" /\ ~out.success /\ out.id \in DOMAIN claimed)
           => out.error = "Job not found"

(* C3: once a poll of an image-sequence job has returned completed, the locator *)
(* is non-empty and every later poll returns the same snapshot; a poll of such  *)
(* a job returns processing or completed.                                       *)
C3_SyntheticPollsIdempotent ==
    [][\A id \in DOMAIN lastPoll' :
          id[1] = "img" =>
              /\ lastPoll'[id].status \in {"processing", "completed"}
              /\ lastPoll'[id].status = "completed" => lastPoll'[id].videoUrl # NoUrl
              /\ (id \in DOMAIN lastPoll /\ lastPoll[id].status = "completed")
                     => lastPoll'[id] = lastPoll[id]]_vars

(* C4: in every snapshot a poll returns, a result locator is present exactly    *)
(* when the status is completed and an error exactly when the status is failed. *)
C4_ResultIffCompleted ==
    \A id \in DOMAIN lastPoll :
        /\ lastPoll[id].videoUrl # NoUrl <=> lastPoll[id].status = "completed"
        /\ lastPoll[id].error # "" <=> lastPoll[id].status = "failed"

(* C5: a successful finalize returns a non-empty locator, the one the poll that *)
(* moved the job to completed returned.                                         *)
C5_FinalizeReturnsStoredResult ==
    (out.op = "api_complete" /\ out.http = 200)
        => /\ out.videoUrl # NoUrl
           /\ out.id \in DOMAIN lastPoll
           /\ out.videoUrl = lastPoll[out.id].videoUrl

(* C6: a provider-routed job is reported completed only with the locator of a   *)
(* generation the provider has completed.                                       *)
C6_NoFabricatedSuccess ==
    \A id \in DOMAIN lastPoll :
        (id[1] = "job" /\ lastPoll[id].status = "completed")
            => /\ lastPoll[id].videoUrl.kind = "provider"
               /\ lastPoll[id].videoUrl.tag \in DOMAIN remote
               /\ remote[lastPoll[id].videoUrl.tag] = "completed"

(* C7: create never returns or relays a queued job with an empty id, and never  *)
(* stores a provider-routed job whose reference the provider did not issue.     *)
C7_NoQueuedJobWithUnusableReference ==
    /\ (out.op \in {"create", "http_create"} /\ out.status = "queued") => out.id # NoId
    /\ \A id \in DOMAIN localStorage :
           localStorage[id].provider = "fal" => localStorage[id].falJobId \in DOMAIN remote

(* C8: a free-tier create never contacts a provider, and a create without a     *)
(* configured credential is not answered with an error (it is routed to the     *)
(* synthetic path).                                                             *)
C8_RoutingPolicy ==
    /\ \A s \in Slots : calls[s].pc = "api_submit" => calls[s].tier # "free"
    /\ out.op = "api_create" => out.http # 503

(* C9: a poll of an id without a record fails with JobNotFound: it returns no   *)
(* status snapshot, and the status endpoint answers 404.                        *)
C9_JobNotFoundIsDistinct ==
    (out.op \in {"poll", "http_status"} /\ ~out.found)
        => /\ out.status \notin Statuses
           /\ out.op = "http_status" => out.http = 404

C11_EarlyFinalizeLeavesStore ==
    [][(out'.op = "complete" /\ out'.found /\ out'.status \notin Terminal)
          => /\ ~out'.success
             /\ out'.error = NotCompletedError(out'.status)
             /\ out'.videoUrl = NoUrl
             /\ localStorage' = localStorage
             /\ claimed' = claimed
             /\ lastPoll' = lastPoll]_vars

C11_Witness ==
    /\ out.op = "complete"
    /\ out.found
    /\ out.status = "processing"
    /\ ~out.success
    /\ out.id \in DOMAIN localStorage

(* C12: a finalize of a job whose status check reports failed fails with the    *)
(* job's failure reason, which tells it from a finalize that came too early and *)
(* from one of an id without a record.                                          *)
C12_FinalizeOfFailedCarriesReason ==
    (out.op = "complete" /\ out.found /\ out.status = "failed")
        => /\ ~out.success
           /\ out.error \in {"Video generation failed", "Unknown provider"}

(* C13: pollForJobCompletion(jobId, maxAttempts) makes at most maxAttempts      *)
(* status polls; it returns success exactly at a poll that reports completed,   *)
(* at a poll that reports failed it returns that poll's reason, it never goes   *)
(* on after a terminal poll, and without a terminal poll it returns the timeout *)
(* error, which no failed poll produces, once maxAttempts polls were made.      *)
C13_PollLoopCapped ==
    /\ \A s \in Slots :
           calls[s].op = "wait"
               => /\ calls[s].attempt <= calls[s].maxAttempts
                  /\ calls[s].pc \in {"head", "check"} => calls[s].attempt < calls[s].maxAttempts
                  /\ calls[s].pc = "sleep" => calls[s].seen \notin Terminal
    /\ out.op = "wait"
           => /\ out.attempts <= out.maxAttempts
              /\ out.success <=> out.status = "completed"
              /\ out.status = "completed" => out.videoUrl # NoUrl
              /\ out.status = "failed" => out.error \notin {"", PollTimeoutError}
              /\ out.status \notin Terminal
                     => /\ out.error = PollTimeoutError
                        /\ out.attempts = out.maxAttempts

C13_Witness ==
    /\ out.op = "wait"
    /\ out.error = PollTimeoutError
    /\ out.attempts = PollMaxAttempts
    /\ out.id \in DOMAIN localStorage

(* C14: one status poll waits for no timer: no time passes between the moment   *)
(* a suspended poll resumes and the moment it returns.                          *)
C14_PollDoesNotWait ==
    [][\A s \in Slots :
          (calls[s].op \in {"poll", "http_status"} /\ calls'[s] = Idle) => now' = now]_vars

(* C15: a create never hands out an id that is already in use, and never        *)
(* replaces a record of the job store.                                          *)
C15_IdsUniqueNoOverwrite ==
    [][\A id \in DOMAIN globalJobStore :
          id \in DOMAIN globalJobStore' => globalJobStore'[id] = globalJobStore[id]]_vars

(* C16: no stored job has an empty prompt or an aspect ratio outside 9:16,      *)
(* 16:9 and 1:1, and a create whose prompt is empty after trimming or whose     *)
(* aspect ratio is unsupported is answered with an error.                       *)
C16_NoInvalidJobStored ==
    /\ \A id \in DOMAIN globalJobStore :
           /\ globalJobStore[id].prompt # ""
           /\ globalJobStore[id].aspectRatio \in {"9:16", "16:9", "1:1"}
    /\ (out.op = "exp_create" /\ out.http = 200) => out.id \in DOMAIN globalJobStore

(* C17: the duration of the job createVideoJob(config, tier) stores, or sends   *)
(* to the provider, is at most PRICING[tier].maxLength.                         *)
C17_DurationWithinTierMax ==
    [][\A s \in Slots, config \in Configs, tier \in Tiers :
          SvcCreateVideoJob(s, config, tier)
              => /\ \A id \in DOMAIN localStorage' :
                        id \notin DOMAIN localStorage
                            => localStorage'[id].duration <= PricingMaxLength(tier)
                 /\ calls'[s].pc = "submit"
                        => calls'[s].job.duration <= PricingMaxLength(tier)]_vars

(* C18: a create that answers with a job id has written one record, in state    *)
(* queued, whose id and status are the ones it answers; a create that answers   *)
(* with an error has written none.                                              *)
C18_CreateStoresWhatItReturns ==
    [][(out'.op = "api_create" /\ out' # out)
          => IF out'.http = 200
             THEN /\ out'.id \notin DOMAIN jobStore
                  /\ DOMAIN jobStore' = DOMAIN jobStore \cup {out'.id}
                  /\ jobStore'[out'.id].id = out'.id
                  /\ jobStore'[out'.id].status = "queued"
                  /\ out'.status = jobStore'[out'.id].status
             ELSE jobStore' = jobStore]_vars

(* C19: generateVideoAsync returns success only for a job it created whose      *)
(* status check reported completed, and then with a non-empty videoUrl.         *)
C19_GenerateNoFalseSuccess ==
    (out.op = "generate" /\ out.success)
        => /\ out.id \in issued
           /\ out.status = "completed"
           /\ out.videoUrl # NoUrl

(* C20: the locator a completed image-sequence job is reported with contains    *)
(* the job's prompt and the width and height getAspectRatioDimensions maps its  *)
(* aspect ratio to.                                                             *)
C20_LocatorHasMappedDimensions ==
    \A id \in DOMAIN lastPoll \cap DOMAIN localStorage :
        (id[1] = "img" /\ lastPoll[id].status = "completed")
            => /\ lastPoll[id].videoUrl.prompt = localStorage[id].prompt
               /\ lastPoll[id].videoUrl.w = AspectWidth(localStorage[id].aspectRatio)
               /\ lastPoll[id].videoUrl.h = AspectHeight(localStorage[id].aspectRatio)

(* C21: for every user, at most 10 requests to POST /api/video/create pass      *)
(* rateLimitMiddleware in any window of 60 seconds, and a request of a user who *)
(* has 10 passed requests in the last 60 seconds is answered 429 and is not     *)
(* counted, whatever the cleanup interval did in between.                       *)
C21_RateLimitPerWindow ==
    [][/\ \A u \in DOMAIN passed' : \A i \in 1..Len(passed'[u]) :
             Cardinality({j \in i..Len(passed'[u]) :
                              passed'[u][j] - passed'[u][i] < ExpRateWindow})
                 <= MAX_REQUESTS_PER_MINUTE
       /\ \A body \in RateBodies :
             (/\ ExpCreateHandler(body)
              /\ Cardinality({i \in 1..Len(PassedOf(body.userId)) :
                                  now - PassedOf(body.userId)[i] < ExpRateWindow})
                     >= MAX_REQUESTS_PER_MINUTE)
                 => /\ out'.http = 429
                    /\ out'.error = "Rate limit exceeded"
                    /\ passed' = passed
                    /\ globalJobStore' = globalJobStore]_vars

C21_Witness ==
    /\ out.op = "exp_create" /\ out.http = 429 /\ out.error = "Rate limit exceeded"
    /\ lastSweep > 0
    /\ \E u \in DOMAIN passed :
           /\ Len(passed[u]) >= MAX_REQUESTS_PER_MINUTE
           /\ \E i \in 1..Len(passed[u]) : passed[u][i] < lastSweep /\ lastSweep - passed[u][i] < ExpRateWindow

(* The jobs of a user in the store that a status poll made now would not report *)
(* completed.                                                                   *)
ExpUncompleted(userId) ==
    {id \in DOMAIN globalJobStore :
        /\ globalJobStore[id].userId = userId
        /\ ExpStatusOf(id, globalJobStore[id], now) # "completed"}

(* C22: no user has more than 3 jobs in the store that have not yet completed.  *)
C22_AtMostThreeUncompleted ==
    \A u \in Users : Cardinality(ExpUncompleted(u)) <= MAX_CONCURRENT_JOBS

(* A step of GET /api/video?action=status: the handler up to its provider      *)
(* request, or the continuation after the request answered.                    *)
ApiPollStep ==
    \/ \E s \in Slots, id \in Known : ApiGetVideoJobStatus(s, id)
    \/ \E s \in Slots, r \in {"throw", "not_ok", "ok"} : ApiCheckReturn(s, r)

(* C23: whatever way polls of one job id interleave, a poll changes a stored    *)
(* record only by writing a terminal status together with its error and leaves  *)
(* the other fields alone, a record is failed exactly when it carries an error, *)
(* and a record with a terminal status is never changed again.                  *)
C23_ConcurrentPollsSafe ==
    [][ApiPollStep =>
          /\ DOMAIN jobStore' = DOMAIN jobStore
          /\ \A id \in DOMAIN jobStore :
                /\ jobStore[id].status \in Terminal => jobStore'[id] = jobStore[id]
                /\ (jobStore'[id].status = "failed") <=> (jobStore'[id].error # "")
                /\ jobStore'[id] # jobStore[id]
                      => /\ jobStore'[id].status \in Terminal
                         /\ jobStore'[id] = [jobStore[id] EXCEPT !.status = jobStore'[id].status,
                                                                !.error = jobStore'[id].error]]_vars

C23_Witness ==
    \E s \in Slots :
        /\ calls[s].pc = "api_check"
        /\ calls[s].id \in DOMAIN jobStore
        /\ calls[s].job.status \notin Terminal
        /\ jobStore[calls[s].id].status = "failed"
        /\ lastPoll[calls[s].id].status = "failed"

(* C24: the successful generations charged to a tier within a reset period      *)
(* never exceed that tier's gensPerMonth: freeUsed stays within the free quota  *)
(* and paidUsed within the quota of the user's paid tier.                       *)
C24_QuotaNeverExceeded ==
    /\ user.freeUsed <= gensPerMonth("free")
    /\ user.tier # "free" => user.paidUsed <= gensPerMonth(user.tier)

(* C25: generateVideo never returns the failure of the FAL call: a paid-tier    *)
(* request whose FAL call failed goes on to the image sequence, as a free-tier  *)
(* request does after a failed PiAPI call.                                      *)
C25_PaidFallsBackAfterFal ==
    out.op = "legacy" => out.error \notin {LegFalError(r) : r \in {"throw", "not_ok"}}

(* C26: POST /api/generate answers a request it could not serve (no key         *)
(* configured, or the provider call failed or answered a non-success status)    *)
(* with an error status, never 200, and with the fallback flag on 500 and 503.  *)
C26_GenerateFailureIsNever200 ==
    (out.op = "api_generate" /\ ~out.success)
        => /\ out.http \in {400, 500, 503}
           /\ out.http \in {500, 503} => out.fallback

(* C27: every snapshot a status poll returns carries one of the four canonical  *)
(* statuses queued, processing, completed, failed.                              *)
C27_SnapshotStatusCanonical ==
    \A id \in DOMAIN lastPoll : lastPoll[id].status \in Statuses

(* C28: for a job routed to a provider, a status poll whose request to the      *)
(* provider threw or was answered with a non-success status reports processing  *)
(* with no error, whatever time has elapsed since the create.                   *)
C28_CheckErrorReportsProcessing ==
    [][\A s \in Slots, r \in {"throw", "not_ok"} :
          (SvcCheckReturn(s, r) /\ calls[s].op = "poll")
              => /\ out'.op = "poll"
                 /\ out'.status = "processing"
                 /\ out'.error = ""
                 /\ lastPoll'[calls[s].id].status = "processing"]_vars

(* C29: once pollForJobCompletion has returned its timeout failure for a job,   *)
(* the next status poll of that job reports failed and the next finalize of it  *)
(* fails.                                                                       *)
C29_TimedOutJobStaysFailed ==
    [][(/\ out.op = "wait" /\ out.error = PollTimeoutError
        /\ out' # out /\ out'.id = out.id /\ out'.op \in {"poll", "complete"})
          => /\ out'.op = "poll" => out'.status = "failed"
             /\ out'.op = "complete" => ~out'.success]_vars

(* A step of POST /api/video?action=complete. *)
ApiFinalizeStep == \E id \in Known : ApiCompleteVideoJob(id)

(* The request fields and the routing mode of a record of api/video.ts. *)
ApiRequestOf(job) ==
    [id |-> job.id, prompt |-> job.prompt, aspectRatio |-> job.aspectRatio,
     duration |-> job.duration, tier |-> job.tier, provider |-> job.provider,
     externalJobId |-> job.externalJobId, createdAt |-> job.createdAt]

(* C30: a poll or a finalize leaves the request fields and the routing mode of  *)
(* every stored record as they were; a poll removes no record and a finalize    *)
(* that fails leaves the whole store as it was.                                 *)
C30_RequestAndRoutingImmutable ==
    [][(ApiPollStep \/ ApiFinalizeStep)
          => /\ DOMAIN jobStore' \subseteq DOMAIN jobStore
             /\ \A id \in DOMAIN jobStore' :
                    ApiRequestOf(jobStore'[id]) = ApiRequestOf(jobStore[id])
             /\ ApiPollStep => DOMAIN jobStore' = DOMAIN jobStore
             /\ (ApiFinalizeStep /\ ~out'.success) => jobStore' = jobStore]_vars

C30_Witness ==
    /\ out.op = "api_complete" /\ out.found /\ ~out.success
    /\ out.id \in DOMAIN jobStore
    /\ jobStore[out.id].status = "failed"
    /\ jobStore[out.id].externalJobId \in DOMAIN remote

(* C31: the fal submission handler calls fal.queue.submit only for a POST       *)
(* request with FAL_API_KEY configured, a non-empty string prompt and a         *)
(* duration that is a number of at most 10 (5 when absent).                     *)
C31_SubmitsOnlyValidRequests ==
    \A s \in Slots :
        calls[s].pc = "fal_queue"
            => /\ env.fal # ""
               /\ calls[s].job.prompt # ""
               /\ calls[s].seen \in {"absent", "number", "numeric_string"}
               /\ calls[s].job.duration <= 10

(* C32: activeJobs is never negative, and a status poll of a job whose          *)
(* completion an earlier poll has already observed changes no activeJobs        *)
(* counter: the completion of a job is counted once.                            *)
C32_CompletionReleasedOnce ==
    [][/\ \A u \in DOMAIN userRateLimits' : userRateLimits'[u].activeJobs >= 0
       /\ \A id \in DOMAIN lastPoll \cap DOMAIN globalJobStore :
             (ExpStatus(id) /\ lastPoll[id].status = "completed")
                 => userRateLimits' = userRateLimits]_vars

(* C33: when the cleanup interval has deleted the last of a user's jobs, the    *)
(* activeJobs those jobs held are released: the user is below the concurrent    *)
(* job limit and the next create is not refused for it.                         *)
C33_SweepReleasesActiveJobs ==
    [][(ExpSweep /\ DOMAIN globalJobStore' # DOMAIN globalJobStore)
          => \A u \in DOMAIN userRateLimits' :
                 (\A id \in DOMAIN globalJobStore' : globalJobStore'[id].userId # u)
                     => userRateLimits'[u].activeJobs < MAX_CONCURRENT_JOBS]_vars

(* The activeJobs counter of a user; a user without rate-limit data has none   *)
(* active.                                                                     *)
ExpActiveJobsOf(limits, userId) ==
    IF userId \in DOMAIN limits THEN limits[userId].activeJobs ELSE 0

(* C34: a create request the Express server refuses (400 or 429) leaves the     *)
(* job store and every user's activeJobs counter as they were.                  *)
C34_RefusedCreateChangesNothing ==
    [][\A body \in RefuseBodies :
          (ExpCreateHandler(body) /\ out'.http \in {400, 429})
              => /\ globalJobStore' = globalJobStore
                 /\ issued' = issued
                 /\ \A u \in DOMAIN userRateLimits \cup DOMAIN userRateLimits' :
                        ExpActiveJobsOf(userRateLimits', u) = ExpActiveJobsOf(userRateLimits, u)]_vars

C34_Witness ==
    /\ out.op = "exp_create" /\ out.http = 429 /\ out.error = "Too many concurrent jobs"
    /\ ExpActiveJobsOf(userRateLimits, "u1") = MAX_CONCURRENT_JOBS
    /\ Cardinality(DOMAIN globalJobStore) = MAX_CONCURRENT_JOBS

(* C35: a free-tier call of generateVideoAsync whose record stays in the store  *)
(* returns, and what it returns is success with a non-empty videoUrl: the       *)
(* video locator, or the image locator after HeadMaxAttempts failed checks.     *)
C35_FreeGenerateReturnsSuccess ==
    /\ \A s \in Slots : (calls[s].via = "generate") ~> (calls[s] = Idle)
    /\ [][\A s \in Slots :
             (calls[s].via = "generate" /\ calls'[s] = Idle)
                 => /\ out'.op = "generate" /\ out'.id = calls[s].id
                    /\ out'.success /\ out'.status = "completed"
                    /\ out'.videoUrl \in {SvcVideoUrl(localStorage[calls[s].id]),
                                          SvcImageUrl(localStorage[calls[s].id])}
                    /\ out'.videoUrl # NoUrl]_vars

C35_Witness ==
    /\ out.op = "generate" /\ out.success /\ out.id \in DOMAIN localStorage
    /\ out.videoUrl = SvcImageUrl(localStorage[out.id])
    /\ \A s \in Slots : calls[s] = Idle

(* C36: every status response of the Express server carries a progress in      *)
(* 0..100 that is at most 90 while the status is processing and 100 exactly    *)
(* when it is completed, and an estimatedRemaining that is never negative and  *)
(* is 0 when completed; from one poll of a job to the next poll of the same    *)
(* job the progress does not decrease.                                         *)
C36_ProgressMonotoneAndBounded ==
    [][\A id \in DOMAIN globalJobStore :
          ExpStatus(id)
              => /\ out'.progress \in 0..100
                 /\ out'.status \in {"processing", "completed"}
                 /\ out'.status = "processing" => out'.progress <= 90
                 /\ out'.status = "completed" <=> out'.progress = 100
                 /\ out'.estimatedRemaining >= 0
                 /\ out'.status = "completed" => out'.estimatedRemaining = 0
                 /\ (out.op = "exp_status" /\ out.id = id /\ out.http = 200)
                        => out'.progress >= out.progress]_vars

C36_Witness ==
    /\ out.op = "exp_status" /\ out.http = 200 /\ out.id \in DOMAIN globalJobStore
    /\ out.status = "processing" /\ out.progress = 90
    /\ now - globalJobStore[out.id].createdAt > 9000

====
